---- MODULE Spec2Model ----
(***************************************************************************)
(* moldesign/utils/json_extension.py: JsonEncoder, json_dump, json_dumps.  *)
(*                                                                         *)
(* JsonEncoder subclasses json.JSONEncoder and overrides its `default`     *)
(* hook; json_dump / json_dumps call json.dump / json.dumps with           *)
(* cls=JsonEncoder.  The base encoder (CPython's json.encoder) is modelled *)
(* as far as the wrapper's behaviour depends on it: the traversal that     *)
(* yields the chunks, the circular-reference markers, the call of the      *)
(* `default` hook and the interpreter's recursion limit.                   *)
(***************************************************************************)
EXTENDS Integers, Sequences, FiniteSets, TLC

VARIABLES heap, pc, call, ret, sink, hook, conv, th

vars == <<heap, pc, call, ret, sink, hook, conv, th>>

(***************************************************************************)
(* Bounds.                                                                 *)
(***************************************************************************)
\* Number of opaque (non-primitive) Python objects on the heap.
NumObjs == 2
\* Largest number of keyword arguments one call passes.
MaxKwargs == 2

Objs == 1..NumObjs

(***************************************************************************)
(* Python values.  A value is a tagged tuple; containers are finite trees. *)
(* <<"obj", i>> is a reference to heap object i (identity i = id(o)).      *)
(***************************************************************************)
PyNone == <<"null">>
PyBool(b) == <<"bool", b>>
PyInt(n) == <<"int", n>>
PyStr(s) == <<"str", s>>
PyList(items) == <<"list", items>>
\* items: a sequence of <<key, value>> pairs in insertion order, keys are str
PyDict(items) == <<"dict", items>>
PyObj(i) == <<"obj", i>>

Kind(v) == v[1]

\* isinstance(o, (str, int, bool, NoneType)): what the encoder writes itself
IsPrim(v) == Kind(v) \in {"null", "bool", "int", "str"}

\* A str with a character outside ASCII is written "U+00E9" here.
NonAscii == {"U+00E9"}

(***************************************************************************)
(* The heap: the class of each opaque object.                              *)
(*   plain        no `to_json` attribute                                   *)
(*   noncallable  a `to_json` attribute that is not callable               *)
(*   conv         a `to_json()` method returning .ret                      *)
(*   dictsub      a dict subclass (content .base) with `to_json()`         *)
(***************************************************************************)
ToJsonReturns ==
    {PyInt(1), PyDict(<<<<"x", PyInt(1)>>, <<"y", PyInt(2)>>>>)}
        \cup {PyObj(j) : j \in Objs}
        \cup {PyList(<<PyObj(j)>>) : j \in Objs}

ObjClasses ==
    {[cls |-> "plain", ret |-> PyNone, base |-> PyNone],
     [cls |-> "noncallable", ret |-> PyNone, base |-> PyNone],
     [cls |-> "dictsub", ret |-> PyList(<<PyInt(1)>>),
      base |-> PyDict(<<<<"a", PyInt(1)>>>>)]}
        \cup {[cls |-> "conv", ret |-> r, base |-> PyNone] : r \in ToJsonReturns}

\* hasattr(obj, 'to_json')
hasattr_to_json(o) ==
    Kind(o) = "obj" /\ heap[o[2]].cls \in {"noncallable", "conv", "dictsub"}

\* isinstance(o, dict): a dict or an instance of a dict subclass
IsDict(o) == Kind(o) = "dict" \/ (Kind(o) = "obj" /\ heap[o[2]].cls = "dictsub")

DictItems(o) == IF Kind(o) = "dict" THEN o[2] ELSE heap[o[2]].base[2]

IsList(o) == Kind(o) = "list"

\* What the base encoder can write without calling `default`.
RECURSIVE IsNative(_)
IsNative(v) ==
    \/ IsPrim(v)
    \/ IsList(v) /\ \A i \in 1..Len(v[2]) : IsNative(v[2][i])
    \/ Kind(v) = "dict" /\ \A i \in 1..Len(v[2]) : IsNative(v[2][i][2])

(***************************************************************************)
(* Keyword arguments.  A call passes a set of keyword settings; a keyword  *)
(* that is not passed keeps the default of json.dump / json.dumps.         *)
(***************************************************************************)
KeywordSettings ==
    {"check_circular=False", "sort_keys=True", "indent=1", "separators=(',',':')",
     "ensure_ascii=False", "default=f", "cls=JSONEncoder"}

Kwargs == {k \in SUBSET KeywordSettings : Cardinality(k) <= MaxKwargs}

(***************************************************************************)
(* json.JSONEncoder.__init__: the encoder instance a call constructs from  *)
(* its class and keywords.  A `default` keyword is stored on the instance, *)
(* where it shadows the class's `default` method.                          *)
(***************************************************************************)
JSONEncoder_init(cls, kw) ==
    [default |-> IF "default=f" \in kw THEN "f" ELSE cls,
     check_circular |-> "check_circular=False" \notin kw,
     sort_keys |-> "sort_keys=True" \in kw,
     indent |-> "indent=1" \in kw,
     item_separator |-> IF "separators=(',',':')" \in kw \/ "indent=1" \in kw
                        THEN "," ELSE ", ",
     key_separator |-> IF "separators=(',',':')" \in kw THEN ":" ELSE ": ",
     ensure_ascii |-> "ensure_ascii=False" \notin kw]

(***************************************************************************)
(* The `default` hooks.  Each returns [st, val, called]: the status, the   *)
(* value handed back to the encoder, whether to_json was called.           *)
(***************************************************************************)
\* JsonEncoder.default, had it returned obj without calling to_json.
JsonEncoder_default_noconv(obj) ==
    [st |-> "ok", val |-> obj, called |-> FALSE]

\* JsonEncoder.default, had it accepted from to_json only a value that needs
\* no further conversion.
JsonEncoder_default_nochain(obj) ==
    IF hasattr_to_json(obj)
    THEN IF heap[obj[2]].cls = "noncallable"
         THEN [st |-> "NotCallable", val |-> obj, called |-> FALSE]
         ELSE IF IsNative(heap[obj[2]].ret)
         THEN [st |-> "ok", val |-> heap[obj[2]].ret, called |-> TRUE]
         ELSE [st |-> "NotSerializable", val |-> obj, called |-> TRUE]
    ELSE [st |-> "ok", val |-> obj, called |-> FALSE]

\* JsonEncoder.default(self, obj)
JsonEncoder_default(obj) ==
    IF hasattr_to_json(obj)
    THEN IF heap[obj[2]].cls = "noncallable"
         THEN [st |-> "NotCallable", val |-> obj, called |-> FALSE]
         ELSE [st |-> "ok", val |-> heap[obj[2]].ret, called |-> TRUE]
    ELSE [st |-> "ok", val |-> obj, called |-> FALSE]

\* json.JSONEncoder.default: raise TypeError("Object of type ... is not JSON
\* serializable")
JSONEncoder_default(obj) ==
    [st |-> "NotSerializable", val |-> obj, called |-> FALSE]

\* A caller's default=f: here f = str, which returns a str for any object.
caller_default(obj) ==
    [st |-> "ok", val |-> PyStr("X"), called |-> FALSE]

call_default(enc, obj) ==
    CASE enc.default = "JsonEncoder" -> JsonEncoder_default(obj)
      [] enc.default = "JSONEncoder" -> JSONEncoder_default(obj)
      [] enc.default = "f" -> caller_default(obj)

(***************************************************************************)
(* Text of the primitives.                                                 *)
(***************************************************************************)
\* encode_basestring_ascii / encode_basestring
encode_str(enc, s) ==
    IF s \in NonAscii /\ enc.ensure_ascii THEN "\"\\u00e9\"" ELSE "\"" \o s \o "\""

PrimText(enc, v) ==
    CASE Kind(v) = "null" -> "null"
      [] Kind(v) = "bool" -> (IF v[2] THEN "true" ELSE "false")
      [] Kind(v) = "int" -> ToString(v[2])
      [] Kind(v) = "str" -> encode_str(enc, v[2])

RECURSIVE Spaces(_)
Spaces(n) == IF n <= 0 THEN "" ELSE " " \o Spaces(n - 1)

\* '\n' + _indent * _current_indent_level
newline_indent(level) == "\n" \o Spaces(level)

\* sorted(dct.items()): the keys of a dict are distinct strings
KeyOrder == <<"a", "b", "k", "x", "y">>
KeyRank(k) == CHOOSE i \in 1..Len(KeyOrder) : KeyOrder[i] = k
sorted_items(items) ==
    LET pos(i) == 1 + Cardinality({j \in 1..Len(items) :
                                     KeyRank(items[j][1]) < KeyRank(items[i][1])})
    IN [p \in 1..Len(items) |-> items[CHOOSE i \in 1..Len(items) : pos(i) = p]]

(***************************************************************************)
(* json.encoder._make_iterencode: the traversal.  Each operator returns    *)
(*   [st, chunks, hook, conv]                                              *)
(* st: "ok" or the exception raised; chunks: the strings yielded (before   *)
(* the exception, if any); hook: the objects `default` was called on, in   *)
(* order; conv: the objects whose to_json was called, in order.            *)
(*                                                                         *)
(* mk is the encoder's `markers` (ids of the objects being encoded), used  *)
(* when check_circular is set.  The containers of this model are finite    *)
(* trees, so only an opaque object can be met again below itself and the   *)
(* markers of lists and dicts never fire: they are left out.               *)
(*                                                                         *)
(* depth counts the nested calls; beyond the interpreter's recursion limit *)
(* Python raises RecursionError.  The limit is above the depth any         *)
(* traversal of the bounded inputs reaches unless it recurses for ever.    *)
(***************************************************************************)
RecursionLimit == 3 * NumObjs + 8

Yield(chunks) == [st |-> "ok", chunks |-> chunks, hook |-> <<>>, conv |-> <<>>]
Raise(st) == [st |-> st, chunks |-> <<>>, hook |-> <<>>, conv |-> <<>>]

\* r1 and then, unless r1 raised, r2
Then(r1, r2) ==
    IF r1.st # "ok" THEN r1
    ELSE [st |-> r2.st, chunks |-> r1.chunks \o r2.chunks,
          hook |-> r1.hook \o r2.hook, conv |-> r1.conv \o r2.conv]

RECURSIVE iterencode(_, _, _, _, _)
RECURSIVE iterencode_list(_, _, _, _, _)
RECURSIVE iterencode_dict(_, _, _, _, _)
RECURSIVE list_items(_, _, _, _, _, _, _)
RECURSIVE dict_items(_, _, _, _, _, _, _)

\* the non-primitive branch of the loops: chunks = _iterencode*(value, ...)
iterencode_value(enc, value, mk, level, depth) ==
    IF IsList(value) THEN iterencode_list(enc, value[2], mk, level, depth)
    ELSE IF IsDict(value) THEN iterencode_dict(enc, DictItems(value), mk, level, depth)
    ELSE iterencode(enc, value, mk, level, depth)

\* for value in lst: ... (from the i-th item on; sep is `separator`)
list_items(enc, lst, i, sep, mk, level, depth) ==
    IF i > Len(lst) THEN Yield(<<>>)
    ELSE LET buf == IF i = 1
                    THEN "[" \o (IF enc.indent THEN newline_indent(level) ELSE "")
                    ELSE sep
             this == IF IsPrim(lst[i])
                     THEN Yield(<<buf \o PrimText(enc, lst[i])>>)
                     ELSE Then(Yield(<<buf>>),
                               iterencode_value(enc, lst[i], mk, level, depth + 1))
         IN Then(this, list_items(enc, lst, i + 1, sep, mk, level, depth))

\* _iterencode_list(lst, _current_indent_level)
iterencode_list(enc, lst, mk, level, depth) ==
    IF depth > RecursionLimit THEN Raise("RecursionError")
    ELSE IF Len(lst) = 0 THEN Yield(<<"[]">>)
    ELSE LET sep == IF enc.indent
                    THEN enc.item_separator \o newline_indent(level + 1)
                    ELSE enc.item_separator
             tail == IF enc.indent THEN <<newline_indent(level), "]">> ELSE <<"]">>
         IN Then(list_items(enc, lst, 1, sep, mk, level + 1, depth), Yield(tail))

\* for key, value in items: ... (from the i-th item on)
dict_items(enc, items, i, sep, mk, level, depth) ==
    IF i > Len(items) THEN Yield(<<>>)
    ELSE LET first == IF i = 1 THEN <<>> ELSE <<sep>>
             key == <<encode_str(enc, items[i][1]), enc.key_separator>>
             value == items[i][2]
             this == IF IsPrim(value)
                     THEN Yield(first \o key \o <<PrimText(enc, value)>>)
                     ELSE Then(Yield(first \o key),
                               iterencode_value(enc, value, mk, level, depth + 1))
         IN Then(this, dict_items(enc, items, i + 1, sep, mk, level, depth))

\* _iterencode_dict(dct, _current_indent_level)
iterencode_dict(enc, items, mk, level, depth) ==
    IF depth > RecursionLimit THEN Raise("RecursionError")
    ELSE IF Len(items) = 0 THEN Yield(<<"{}">>)
    ELSE LET head == IF enc.indent THEN <<"{", newline_indent(level + 1)>> ELSE <<"{">>
             sep == IF enc.indent
                    THEN enc.item_separator \o newline_indent(level + 1)
                    ELSE enc.item_separator
             tail == IF enc.indent THEN <<newline_indent(level), "}">> ELSE <<"}">>
             its == IF enc.sort_keys THEN sorted_items(items) ELSE items
         IN Then(Yield(head),
                 Then(dict_items(enc, its, 1, sep, mk, level + 1, depth), Yield(tail)))

\* _iterencode(o, _current_indent_level)
iterencode(enc, o, mk, level, depth) ==
    IF depth > RecursionLimit THEN Raise("RecursionError")
    ELSE IF IsPrim(o) THEN Yield(<<PrimText(enc, o)>>)
    ELSE IF IsList(o) THEN iterencode_list(enc, o[2], mk, level, depth + 1)
    ELSE IF IsDict(o) THEN iterencode_dict(enc, DictItems(o), mk, level, depth + 1)
    ELSE IF enc.check_circular /\ o[2] \in mk THEN Raise("CircularReference")
    ELSE LET d == call_default(enc, o)
             called == [st |-> d.st, chunks |-> <<>>, hook |-> <<o[2]>>,
                        conv |-> IF d.called THEN <<o[2]>> ELSE <<>>]
             mk2 == IF enc.check_circular THEN mk \cup {o[2]} ELSE mk
         IN Then(called, iterencode(enc, d.val, mk2, level, depth + 1))

(***************************************************************************)
(* json.dumps / json.dump of the standard library, called with a class.    *)
(***************************************************************************)
RECURSIVE Join(_)
\* ''.join(chunks)
Join(chunks) == IF Len(chunks) = 0 THEN "" ELSE Head(chunks) \o Join(Tail(chunks))

\* json.dumps(obj, cls=cls, **kw): cls(**kw).encode(obj)
json_lib_dumps(obj, cls, kw) ==
    LET r == iterencode(JSONEncoder_init(cls, kw), obj, {}, 0, 1)
    IN [st |-> r.st, text |-> IF r.st = "ok" THEN Join(r.chunks) ELSE "",
        chunks |-> <<>>, hook |-> r.hook, conv |-> r.conv]

\* json.dump(obj, fp, cls=cls, **kw):
\*     for chunk in cls(**kw).iterencode(obj): fp.write(chunk)
json_lib_dump(obj, cls, kw) ==
    LET r == iterencode(JSONEncoder_init(cls, kw), obj, {}, 0, 1)
    IN [st |-> r.st, text |-> "", chunks |-> r.chunks, hook |-> r.hook, conv |-> r.conv]

\* f(*args, cls=JsonEncoder, **kwargs) with 'cls' among kwargs:
\* TypeError: got multiple values for keyword argument 'cls'
DuplicateKeyword ==
    [st |-> "DuplicateKeyword", text |-> "", chunks |-> <<>>, hook |-> <<>>, conv |-> <<>>]

(***************************************************************************)
(* The wrappers.  The decorator args_from(json.dumps) copies the signature *)
(* and the docstring of json.dumps onto the wrapper and leaves its         *)
(* behaviour alone.                                                        *)
(***************************************************************************)
\* json_dumps, had it left out cls=JsonEncoder.
json_dumps_basecls(obj, kwargs) ==
    IF "cls=JSONEncoder" \in kwargs THEN DuplicateKeyword
    ELSE json_lib_dumps(obj, "JSONEncoder", kwargs)

\* json_dumps, had it left out **kwargs.
json_dumps_nokwargs(obj, kwargs) ==
    json_lib_dumps(obj, "JsonEncoder", {})

\* json_dumps, had it passed check_circular=False.
json_dumps_nocheck(obj, kwargs) ==
    IF "cls=JSONEncoder" \in kwargs THEN DuplicateKeyword
    ELSE json_lib_dumps(obj, "JsonEncoder", kwargs \cup {"check_circular=False"})

\* json_dump, had it left out cls=JsonEncoder.
json_dump_basecls(obj, kwargs) ==
    IF "cls=JSONEncoder" \in kwargs THEN DuplicateKeyword
    ELSE json_lib_dump(obj, "JSONEncoder", kwargs)

\* json_dumps(*args, **kwargs)
json_dumps(obj, kwargs) ==
    IF "cls=JSONEncoder" \in kwargs THEN DuplicateKeyword
    ELSE json_lib_dumps(obj, "JsonEncoder", kwargs)

\* json_dump(*args, **kwargs)
json_dump(obj, kwargs) ==
    IF "cls=JSONEncoder" \in kwargs THEN DuplicateKeyword
    ELSE json_lib_dump(obj, "JsonEncoder", kwargs)

\* The unwrapped json.dumps(obj, **kwargs) of the standard library.
json_dumps_unwrapped(obj, kwargs) ==
    json_lib_dumps(obj, "JSONEncoder", kwargs \ {"cls=JSONEncoder"})

(***************************************************************************)
(* The values a caller serializes.                                         *)
(***************************************************************************)
NativeInputs ==
    {PyNone, PyBool(TRUE), PyInt(7), PyStr("U+00E9"), PyList(<<>>), PyDict(<<>>),
     PyList(<<PyInt(1), PyStr("a")>>),
     PyDict(<<<<"b", PyInt(1)>>, <<"a", PyNone>>>>),
     PyList(<<PyList(<<PyInt(1)>>), PyDict(<<<<"a", PyList(<<PyBool(FALSE)>>)>>>>)>>),
     PyDict(<<<<"b", PyDict(<<<<"y", PyList(<<>>)>>, <<"x", PyStr("U+00E9")>>>>)>>,
              <<"a", PyInt(0)>>>>)}

\* The opaque object a caller passes is object 1 (ids are interchangeable);
\* the other objects come into play through what to_json returns.
Root == PyObj(1)

OpaqueInputs ==
    {Root,
     PyList(<<PyInt(1), Root>>),
     PyList(<<Root, Root>>),
     PyList(<<PyDict(<<<<"k", PyList(<<Root>>)>>>>)>>)}

Inputs == NativeInputs \cup OpaqueInputs

NoCall == [op |-> "none", obj |-> PyNone, kwargs |-> {}]
NoRet == [st |-> "none", text |-> ""]

\* The objects a value refers to.
RECURSIVE Refs(_)
Refs(v) ==
    CASE Kind(v) = "obj" -> {v[2]}
      [] Kind(v) = "list" -> UNION {Refs(v[2][i]) : i \in 1..Len(v[2])}
      [] Kind(v) = "dict" -> UNION {Refs(v[2][i][2]) : i \in 1..Len(v[2])}
      [] OTHER -> {}

\* The objects reachable from those of S through what to_json returns.
RECURSIVE Reachable(_, _)
Reachable(h, S) ==
    LET T == S \cup UNION {Refs(h[i].ret) : i \in S}
    IN IF T = S THEN S ELSE Reachable(h, T)

(***************************************************************************)
(* The sequential program: a caller with some heap of objects calls        *)
(* json_dumps or json_dump, gets the result (or the exception) and goes    *)
(* on.                                                                     *)
(***************************************************************************)
\* An object no input reaches plays no part: it is left plain.
Init ==
    /\ heap \in [Objs -> ObjClasses]
    /\ \A i \in Objs \ Reachable(heap, {1}) : heap[i].cls = "plain"
    /\ pc = "idle"
    /\ call = NoCall
    /\ ret = NoRet
    /\ sink = <<>>
    /\ hook = <<>>
    /\ conv = <<>>
    /\ th = <<>>

\* text = json_dumps(obj, **kwargs)
Call_json_dumps(obj, kwargs) ==
    /\ pc = "idle"
    /\ LET r == json_dumps(obj, kwargs)
       IN /\ ret' = [st |-> r.st, text |-> r.text]
          /\ hook' = r.hook
          /\ conv' = r.conv
    /\ call' = [op |-> "json_dumps", obj |-> obj, kwargs |-> kwargs]
    /\ pc' = "returned"
    /\ UNCHANGED <<heap, sink, th>>

\* json_dump(obj, fp, **kwargs), fp an empty sink
Call_json_dump(obj, kwargs) ==
    /\ pc = "idle"
    /\ LET r == json_dump(obj, kwargs)
       IN /\ ret' = [st |-> r.st, text |-> ""]
          /\ sink' = sink \o r.chunks
          /\ hook' = r.hook
          /\ conv' = r.conv
    /\ call' = [op |-> "json_dump", obj |-> obj, kwargs |-> kwargs]
    /\ pc' = "returned"
    /\ UNCHANGED <<heap, th>>

\* the caller takes the result; the encoder instance and the sink are dropped
Return ==
    /\ pc = "returned"
    /\ pc' = "idle"
    /\ call' = NoCall
    /\ ret' = NoRet
    /\ sink' = <<>>
    /\ hook' = <<>>
    /\ conv' = <<>>
    /\ UNCHANGED <<heap, th>>

Next ==
    \/ \E obj \in Inputs, kwargs \in Kwargs : Call_json_dumps(obj, kwargs)
    \/ \E obj \in Inputs, kwargs \in Kwargs : Call_json_dump(obj, kwargs)
    \/ Return

Spec == Init /\ [][Next]_vars

(***************************************************************************)
(* Notions the properties are stated with.                                 *)
(***************************************************************************)
Returned(op) == pc = "returned" /\ call.op = op
ReturnedAny == pc = "returned"

\* The outcome of a call as the caller sees it.
Outcome(r) == [st |-> r.st, text |-> r.text]

\* v with every occurrence of object i replaced by r
RECURSIVE Subst(_, _, _)
Subst(v, i, r) ==
    CASE v = PyObj(i) -> r
      [] Kind(v) = "list" -> PyList([k \in 1..Len(v[2]) |-> Subst(v[2][k], i, r)])
      [] Kind(v) = "dict" ->
            PyDict([k \in 1..Len(v[2]) |-> <<v[2][k][1], Subst(v[2][k][2], i, r)>>])
      [] OTHER -> v

\* the number of occurrences of object i in the tree v
RECURSIVE Occ(_, _)
RECURSIVE SumOcc(_, _, _)
SumOcc(vs, k, i) == IF k > Len(vs) THEN 0 ELSE Occ(vs[k], i) + SumOcc(vs, k + 1, i)
Occ(v, i) ==
    CASE v = PyObj(i) -> 1
      [] Kind(v) = "list" -> SumOcc(v[2], 1, i)
      [] Kind(v) = "dict" -> SumOcc([k \in 1..Len(v[2]) |-> v[2][k][2]], 1, i)
      [] OTHER -> 0

\* the number of times i occurs in the sequence s
Count(s, i) == Cardinality({k \in 1..Len(s) : s[k] = i})

\* o is an object the base encoder cannot write and whose to_json() works
IsConv(o) == Kind(o) = "obj" /\ heap[o[2]].cls = "conv"

\* The conversion chain from o: o, o.to_json(), o.to_json().to_json(), ...
\* as long as the value is a convertible object (at most n steps).
RECURSIVE ChainFrom(_, _)
ChainFrom(o, n) ==
    IF n = 0 \/ ~IsConv(o) THEN <<>>
    ELSE <<o[2]>> \o ChainFrom(heap[o[2]].ret, n - 1)

\* the value n conversions after o
RECURSIVE ChainEnd(_, _)
ChainEnd(o, n) == IF n = 0 \/ ~IsConv(o) THEN o ELSE ChainEnd(heap[o[2]].ret, n - 1)

\* o starts a finite chain of conversions that ends in a native value
IsFiniteChain(o) == IsConv(o) /\ IsNative(ChainEnd(o, NumObjs))

\* o starts a cycle of conversions: every object the conversions from o
\* reach converts to a value that holds an object again, so the traversal
\* never comes to an end in native values (one object comes round again)
IsConversionCycle(o) ==
    /\ IsConv(o)
    /\ \A i \in Reachable(heap, {o[2]}) :
          heap[i].cls = "conv" /\ ~IsNative(heap[i].ret)

\* no object reachable from the root lies on a cycle of to_json results
NoConversionCycle ==
    \A i \in Reachable(heap, {1}) : i \notin Reachable(heap, Refs(heap[i].ret))

\* keywords that leave the class's `default` method in place
KeepsHook(kwargs) == "default=f" \notin kwargs /\ "cls=JSONEncoder" \notin kwargs

(***************************************************************************)
(* Properties of the sequential program.                                   *)
(***************************************************************************)

\* C1: a value that is neither native nor has a `to_json` attribute makes
\* json_dumps and json_dump fail with the base encoder's "not serializable"
\* TypeError, with and without check_circular.
C1_PlainRaisesNotSerializable ==
    (ReturnedAny /\ call.obj = Root /\ heap[1].cls = "plain"
        /\ call.kwargs \subseteq {"check_circular=False"})
        => ret.st = "NotSerializable"

\* C2 as stated: for every o with a to_json method returning r, dict
\* subclasses included, json_dumps(o) gives what json_dumps(r) gives.
C2_ToJsonAlwaysUsed ==
    (Returned("json_dumps") /\ call.obj = Root /\ call.kwargs = {}
        /\ heap[1].cls \in {"conv", "dictsub"})
        => ret = Outcome(json_dumps(heap[1].ret, call.kwargs))

\* C2 amended: for every o the base encoder cannot write itself, with a
\* to_json method returning r, json_dumps(o) gives what json_dumps(r) gives
\* (the same text, or the same exception) under the same keywords; a dict
\* subclass with a to_json method is written as the dict it is and its
\* to_json is not called.
C2_ToJsonUsedForOpaque ==
    (Returned("json_dumps") /\ call.obj = Root /\ KeepsHook(call.kwargs))
        => /\ heap[1].cls = "conv"
                => ret = Outcome(json_dumps(heap[1].ret, call.kwargs))
           /\ heap[1].cls = "dictsub"
                => /\ ret = Outcome(json_dumps(heap[1].base, call.kwargs))
                   /\ conv = <<>>

C2_Witness ==
    /\ Returned("json_dumps") /\ call.obj = Root /\ call.kwargs = {}
    /\ heap[1].cls = "conv" /\ Kind(heap[1].ret) = "dict"
    /\ ret.st = "ok" /\ ret.text = "{\"x\": 1, \"y\": 2}"

C4_EveryKeywordKeepsFallback ==
    (ReturnedAny /\ call.obj = Root /\ heap[1].cls = "conv" /\ IsNative(heap[1].ret))
        => ret.st = "ok" /\ conv = <<1>>

\* C5: a chain o_0 -> ... -> o_n of n >= 1 conversions ending in a native
\* value v: json_dumps(o_0) returns after exactly n calls of the hook, one on
\* each o_i in turn, with the text of json_dumps(v).
C5_ChainTransparent ==
    (Returned("json_dumps") /\ call.obj = Root /\ KeepsHook(call.kwargs)
        /\ IsFiniteChain(Root))
        => /\ ret.st = "ok"
           /\ hook = ChainFrom(Root, NumObjs)
           /\ conv = hook
           /\ ret = Outcome(json_dumps(ChainEnd(Root, NumObjs), call.kwargs))

C5_Witness ==
    /\ Returned("json_dumps") /\ call.obj = Root /\ call.kwargs = {}
    /\ IsFiniteChain(Root) /\ Len(hook) = NumObjs /\ NumObjs >= 2
    /\ ret.st = "ok"

\* C6 as stated: on a cycle of conversions json_dumps / json_dump with the
\* default keywords recurse until the stack is exhausted.
C6_CycleExhaustsStack ==
    (ReturnedAny /\ call.obj = Root /\ call.kwargs = {} /\ IsConversionCycle(Root))
        => ret.st = "RecursionError"

\* C6 amended: on a cycle of conversions through the same objects neither
\* call returns a result.  With the default keywords (check_circular on) the
\* base encoder's markers end the call with its "Circular reference
\* detected" ValueError when the first object comes round again, each object
\* of the cycle converted once; with check_circular=False the call recurses
\* until the stack is exhausted.
C6_CycleEndsInError ==
    (ReturnedAny /\ call.obj = Root /\ IsConversionCycle(Root)
        /\ call.kwargs \subseteq {"check_circular=False"})
        => /\ ret.text = ""
           /\ call.kwargs = {}
                => /\ ret.st = "CircularReference"
                   /\ \A i \in Objs : Count(conv, i) <= 1
           /\ call.kwargs = {"check_circular=False"} => ret.st = "RecursionError"

C6_Witness ==
    /\ Returned("json_dumps") /\ call.obj = Root /\ call.kwargs = {}
    /\ IsConversionCycle(Root) /\ heap[1].ret = PyObj(2) /\ heap[2].ret = PyObj(1)
    /\ ret.st = "CircularReference" /\ conv = <<1, 2>>

\* C7: a failing call on an input without a conversion cycle fails with the
\* "not serializable" TypeError and with nothing else.
C7_OnlyNotSerializable ==
    (ReturnedAny /\ call.kwargs = {} /\ NoConversionCycle /\ ret.st # "ok")
        => ret.st = "NotSerializable"

\* C8: a container holding a convertible object o (to_json returning r) as
\* an element or a dict value is written as the same container with r in
\* the place of o, and to_json is called once per occurrence of o.
C8_ConvertedInPlace ==
    (Returned("json_dumps") /\ Kind(call.obj) = "list" /\ Occ(call.obj, 1) > 0
        /\ heap[1].cls = "conv" /\ KeepsHook(call.kwargs))
        => /\ ret = Outcome(json_dumps(Subst(call.obj, 1, heap[1].ret), call.kwargs))
           /\ ret.st = "ok" => Count(conv, 1) = Occ(call.obj, 1)

C8_Witness ==
    /\ Returned("json_dumps") /\ call.obj = PyList(<<Root, Root>>) /\ call.kwargs = {}
    /\ heap[1].cls = "conv" /\ heap[1].ret = PyList(<<PyObj(2)>>)
    /\ ret.st = "ok" /\ Count(conv, 1) = 2 /\ Count(conv, 2) = 2

\* C9: json_dump writes to its sink, chunk by chunk, the text json_dumps
\* returns for the same value and keywords, and raises what json_dumps
\* raises.
C9_DumpAgreesWithDumps ==
    /\ Returned("json_dump")
        => LET d == json_dumps(call.obj, call.kwargs)
           IN /\ ret.st = d.st
              /\ d.st = "ok" => Join(sink) = d.text
              /\ hook = d.hook
    /\ Returned("json_dumps")
        => LET d == json_dump(call.obj, call.kwargs)
           IN /\ ret.st = d.st
              /\ d.st = "ok" => ret.text = Join(d.chunks)

C9_Witness ==
    /\ Returned("json_dump") /\ call.obj = PyList(<<PyInt(1), Root>>)
    /\ heap[1].cls = "conv" /\ ret.st = "ok" /\ Len(sink) > 2

(***************************************************************************)
(* Concurrent calls.  Each thread calls json_dumps once; the call          *)
(* constructs its own JsonEncoder, whose markers and output belong to the  *)
(* call.  A thread's traversal is followed step by step with an explicit   *)
(* stack of pending work:                                                  *)
(*   <<"t", text>>       text to append to the output                      *)
(*   <<"v", value, lvl>> a value to encode at indent level lvl             *)
(*   <<"u", i>>          del markers[id of object i]                       *)
(* One step of a thread runs it up to and including its next call of the   *)
(* `default` hook (between two calls it touches only its own encoder), or  *)
(* to the end of the call.                                                 *)
(***************************************************************************)
NumThreads == 2
Threads == 1..NumThreads

ConcInputs == {Root, PyList(<<PyInt(1), Root>>)}
\* the threads call with the default keywords (check_circular on: every
\* traversal ends, so the stack needs no limit here)
ConcKwargs == {{}}

IdleThread ==
    [st |-> "idle", obj |-> PyNone, kwargs |-> {}, work |-> <<>>, out |-> "",
     mk |-> {}, hook |-> <<>>, overlapped |-> FALSE]

RECURSIVE Flatten(_)
Flatten(ss) == IF Len(ss) = 0 THEN <<>> ELSE Head(ss) \o Flatten(Tail(ss))

\* the work _iterencode_list(lst, level) stands for
list_work(enc, lst, level) ==
    IF Len(lst) = 0 THEN << <<"t", "[]">> >>
    ELSE LET nl1 == IF enc.indent THEN newline_indent(level + 1) ELSE ""
             nl0 == IF enc.indent THEN newline_indent(level) ELSE ""
         IN << <<"t", "[" \o nl1>> >>
            \o Flatten([i \in 1..Len(lst) |->
                   (IF i = 1 THEN <<>> ELSE << <<"t", enc.item_separator \o nl1>> >>)
                   \o << <<"v", lst[i], level + 1>> >>])
            \o << <<"t", nl0 \o "]">> >>

\* the work _iterencode_dict(dct, level) stands for
dict_work(enc, items, level) ==
    IF Len(items) = 0 THEN << <<"t", "{}">> >>
    ELSE LET nl1 == IF enc.indent THEN newline_indent(level + 1) ELSE ""
             nl0 == IF enc.indent THEN newline_indent(level) ELSE ""
             its == IF enc.sort_keys THEN sorted_items(items) ELSE items
         IN << <<"t", "{" \o nl1>> >>
            \o Flatten([i \in 1..Len(its) |->
                   (IF i = 1 THEN <<>> ELSE << <<"t", enc.item_separator \o nl1>> >>)
                   \o << <<"t", encode_str(enc, its[i][1]) \o enc.key_separator>>,
                         <<"v", its[i][2], level + 1>> >>])
            \o << <<"t", nl0 \o "}">> >>

\* What the markers would hold were one encoder shared by all the calls.
shared_markers(t, s) == s.mk \cup UNION {th[u].mk : u \in Threads \ {t}}

\* The markers the traversal of thread t (thread record s) checks: those of
\* the encoder instance its call constructed, shared with no other call.
encoder_markers(t, s) == s.mk

\* Thread record s (of thread t) run to its next hook call or to its end.
RECURSIVE Advance(_, _)
Advance(t, s) ==
    IF s.st # "running" THEN s
    ELSE IF Len(s.work) = 0 THEN [s EXCEPT !.st = "ok"]
    ELSE LET item == Head(s.work)
             rest == Tail(s.work)
             enc == JSONEncoder_init("JsonEncoder", s.kwargs)
         IN CASE item[1] = "t" ->
                   Advance(t, [s EXCEPT !.work = rest, !.out = s.out \o item[2]])
              [] item[1] = "u" ->
                   Advance(t, [s EXCEPT !.work = rest, !.mk = s.mk \ {item[2]}])
              [] item[1] = "v" /\ IsPrim(item[2]) ->
                   Advance(t, [s EXCEPT !.work = rest,
                                        !.out = s.out \o PrimText(enc, item[2])])
              [] item[1] = "v" /\ IsList(item[2]) ->
                   Advance(t, [s EXCEPT !.work = list_work(enc, item[2][2], item[3])
                                                   \o rest])
              [] item[1] = "v" /\ ~IsList(item[2]) /\ IsDict(item[2]) ->
                   Advance(t, [s EXCEPT !.work = dict_work(enc, DictItems(item[2]),
                                                           item[3]) \o rest])
              [] OTHER ->
                   LET i == item[2][2]
                       d == call_default(enc, item[2])
                   IN IF enc.check_circular
                         /\ i \in encoder_markers(t, s)
                      THEN [s EXCEPT !.st = "CircularReference", !.out = ""]
                      ELSE IF d.st # "ok"
                      THEN [s EXCEPT !.st = d.st, !.out = "",
                                     !.hook = s.hook \o <<i>>]
                      ELSE [s EXCEPT !.work = << <<"v", d.val, item[3]>>, <<"u", i>> >>
                                              \o rest,
                                     !.mk = IF enc.check_circular
                                            THEN s.mk \cup {i} ELSE s.mk,
                                     !.hook = s.hook \o <<i>>]

ConcInit ==
    /\ heap \in [Objs -> ObjClasses]
    /\ \A i \in Objs \ Reachable(heap, {1}) : heap[i].cls = "plain"
    /\ pc = "idle"
    /\ call = NoCall
    /\ ret = NoRet
    /\ sink = <<>>
    /\ hook = <<>>
    /\ conv = <<>>
    /\ th = [t \in Threads |-> IdleThread]

\* thread t enters json_dumps(obj, **kwargs): a new encoder, nothing done yet
ThreadCall(t, obj, kwargs) ==
    /\ th[t].st = "idle"
    /\ th' = [th EXCEPT ![t] = [IdleThread EXCEPT !.st = "running", !.obj = obj,
                                                 !.kwargs = kwargs,
                                                 !.work = << <<"v", obj, 0>> >>]]
    /\ UNCHANGED <<heap, pc, call, ret, sink, hook, conv>>

\* thread t runs while the others are suspended
ThreadStep(t) ==
    /\ th[t].st = "running"
    /\ LET busy == \E u \in Threads \ {t} : th[u].st = "running" /\ th[u].mk # {}
           s == Advance(t, th[t])
       IN th' = [th EXCEPT ![t] = [s EXCEPT !.overlapped = th[t].overlapped \/ busy]]
    /\ UNCHANGED <<heap, pc, call, ret, sink, hook, conv>>

ConcNext ==
    \/ \E t \in Threads, obj \in ConcInputs, kwargs \in ConcKwargs :
          ThreadCall(t, obj, kwargs)
    \/ \E t \in Threads : ThreadStep(t)

SpecConc == ConcInit /\ [][ConcNext]_vars

\* C10: concurrent calls are independent: however the calls interleave, each
\* returns the text, or raises the exception, it returns or raises alone,
\* after the same calls of the hook.
C10_CallsIndependent ==
    \A t \in Threads :
        th[t].st \notin {"idle", "running"}
            => LET alone == json_dumps(th[t].obj, th[t].kwargs)
               IN /\ th[t].st = alone.st
                  /\ th[t].out = alone.text
                  /\ th[t].hook = alone.hook

C10_Witness ==
    /\ th[1].st = "ok" /\ th[1].overlapped /\ th[1].obj = Root
    /\ Len(th[1].hook) = 2
    /\ th[2].st = "running" /\ th[2].overlapped /\ th[2].mk # {} /\ th[2].obj = Root

====
